---- MODULE Spec2Model ----
(***************************************************************************)
(* Payment ledger of the chit-fund backend: the UserPayment document, its  *)
(* pre-save derivation hook (models/userPayment.js) and the request        *)
(* handlers that create, pay, bulk-pay, patch and delete an account        *)
(* (controllers/userPaymentsController.js).                                *)
(*                                                                         *)
(* Amounts are exact rationals held as integers in units of 1/Scale of a   *)
(* currency unit, so that the even split amount / monthNumbers.length is   *)
(* exact; IEEE-754 rounding of the split is outside the model.  Dates are  *)
(* calendar triples <<year, month (0..11), day>>; Null (<<>>) is null.     *)
(* Record metadata that no handler reads back (paymentMethod,              *)
(* transactionId, remarks, lateFee) and the member's identity fields other *)
(* than aadharNumber are left out.                                         *)
(*                                                                         *)
(* Spec runs every handler as one step.  SpecC splits the two payment      *)
(* handlers at their awaits: the findById that loads the document and the  *)
(* save() that persists it; inflight holds the requests between the two.   *)
(***************************************************************************)
EXTENDS Integers, Sequences, FiniteSets, TLC

VARIABLES db, response, inflight

vars == <<db, response, inflight>>

(* ---------------- bounds and input domains ---------------- *)

MaxRecords == 2

Ids == {1}
Aadhars == {"123412341234"}
ChitAmounts == {12000}
StartDates == {<<2024, 0, 31>>}
PayDates == {<<2024, 1, 10>>, <<2024, 2, 15>>}
Null == <<>>

SeqsUpTo(S, n) == UNION {[1..k -> S] : k \in 0..n}

\* Request inputs: tenure values, month numbers and monthNumbers lists.
Tenures == {0, 1, 2}
Months == {0, 1, 2}
MonthLists == SeqsUpTo(Months, 2)

RecordStatuses == {"paid", "pending", "overdue", "partial"}
AccountStatuses == {"active", "completed", "cancelled"}

RECURSIVE Gcd(_, _)
Gcd(a, b) == IF b = 0 THEN a ELSE Gcd(b, a % b)

RECURSIVE LcmUpTo(_)
LcmUpTo(n) == IF n <= 1 THEN 1 ELSE LET l == LcmUpTo(n - 1) IN (l * n) \div Gcd(l, n)

\* One currency unit is Scale model units: the length of every request's
\* monthNumbers divides Scale.
MaxMonthNumbers == Len(CHOOSE s \in MonthLists : \A t \in MonthLists : Len(t) <= Len(s))
Scale == LcmUpTo(MaxMonthNumbers)

(* ---------------- JavaScript Date arithmetic ---------------- *)

IsLeap(y) == (y % 4 = 0 /\ y % 100 # 0) \/ y % 400 = 0

DaysInMonth(y, m) ==
    IF m = 1 THEN (IF IsLeap(y) THEN 29 ELSE 28)
    ELSE IF m \in {3, 5, 8, 10} THEN 30 ELSE 31

\* d = new Date(date); d.setMonth(d.getMonth() + k): the month index moves by
\* k and a day past the end of the target month rolls over into the next one.
AddMonths(date, k) ==
    LET mi == date[1] * 12 + date[2] + k
        y == mi \div 12
        m == mi % 12
        dim == DaysInMonth(y, m)
    IN IF date[3] <= dim THEN <<y, m, date[3]>>
       ELSE <<(mi + 1) \div 12, (mi + 1) % 12, date[3] - dim>>

\* a > b on Date values (comparison of the time values).
DateGT(a, b) ==
    \/ a[1] > b[1]
    \/ a[1] = b[1] /\ a[2] > b[2]
    \/ a[1] = b[1] /\ a[2] = b[2] /\ a[3] > b[3]

(* ---------------- Array helpers ---------------- *)

Map(s, F(_)) == [i \in 1..Len(s) |-> F(s[i])]

Includes(s, x) == \E i \in 1..Len(s) : s[i] = x


(* ---------------- models/userPayment.js ---------------- *)

\* paymentRecordSchema: the validators of one embedded record.
ValidRecord(record) ==
    /\ record.monthNumber >= 1
    /\ record.amount >= 0
    /\ record.paymentDate # Null
    /\ record.dueDate # Null
    /\ record.status \in RecordStatuses

\* userPaymentSchema: the validators mongoose runs before the pre-save hook.
ValidDoc(doc) ==
    /\ doc.aadharNumber \in Aadhars
    /\ doc.chitAmount >= 1000
    /\ doc.tenure >= 1
    /\ doc.startDate # Null
    /\ doc.status \in AccountStatuses
    /\ \A i \in 1..Len(doc.paymentRecords) : ValidRecord(doc.paymentRecords[i])

\* (record) => record.status === "paid" || record.status === "partial"
IsSettled(record) == record.status = "paid" \/ record.status = "partial"

PaidRecords(records) == SelectSeq(records, IsSettled)

\* paidRecords.reduce((total, record) => total + record.amount, 0)
RECURSIVE ReduceAmount(_, _)
ReduceAmount(records, total) ==
    IF records = <<>> THEN total
    ELSE ReduceAmount(Tail(records), total + Head(records).amount)

\* paidRecords.reduce((latest, record) =>
\*   record.paymentDate > latest.paymentDate ? record : latest)
RECURSIVE ReduceLatest(_, _)
ReduceLatest(records, latest) ==
    IF records = <<>> THEN latest
    ELSE ReduceLatest(Tail(records),
                      IF DateGT(Head(records).paymentDate, latest.paymentDate)
                      THEN Head(records) ELSE latest)

DeriveEndDate(doc) ==
    IF doc.startDate # Null /\ doc.tenure # 0 /\ doc.endDate = Null
    THEN AddMonths(doc.startDate, doc.tenure) ELSE doc.endDate

DeriveMonthlyPremium(doc) ==
    IF doc.chitAmount # 0 /\ doc.tenure # 0 /\ doc.monthlyPremium = 0
    THEN (doc.chitAmount * Scale) \div doc.tenure ELSE doc.monthlyPremium

\* Mutation: pendingMonths clamped at zero.
DerivePendingMonthsClamped(tenure, completedMonths) ==
    IF tenure > completedMonths THEN tenure - completedMonths ELSE 0

DerivePendingMonths(tenure, completedMonths) == tenure - completedMonths

\* Mutation: the sum is added to the stored total instead of starting at 0.
DeriveTotalPaidAmountIncremental(doc, paidRecords) ==
    ReduceAmount(paidRecords, doc.totalPaidAmount)

DeriveTotalPaidAmount(doc, paidRecords) == ReduceAmount(paidRecords, 0)

DeriveLastPaymentDate(doc, paidRecords) ==
    IF Len(paidRecords) > 0
    THEN ReduceLatest(Tail(paidRecords), Head(paidRecords)).paymentDate
    ELSE doc.lastPaymentDate

\* Mutation: > in place of >=.
DeriveStatusStrict(doc, completedMonths) ==
    IF completedMonths > doc.tenure THEN "completed" ELSE doc.status

DeriveStatus(doc, completedMonths) ==
    IF completedMonths >= doc.tenure THEN "completed" ELSE doc.status

\* userPaymentSchema.pre("save")
PreSave(doc) ==
    LET paidRecords == PaidRecords(doc.paymentRecords)
        completedMonths == Len(paidRecords)
    IN [doc EXCEPT
          !.endDate = DeriveEndDate(doc),
          !.monthlyPremium = DeriveMonthlyPremium(doc),
          !.completedMonths = completedMonths,
          !.pendingMonths = DerivePendingMonths(doc.tenure, completedMonths),
          !.totalPaidAmount = DeriveTotalPaidAmount(doc, paidRecords),
          !.lastPaymentDate = DeriveLastPaymentDate(doc, paidRecords),
          !.status = DeriveStatus(doc, completedMonths)]

(* ---------------- controllers/userPaymentsController.js ---------------- *)

Response(status, kind, months) == [status |-> status, kind |-> kind, months |-> months]

Result(newDb, res) == [db |-> newDb, res |-> res]

NotFound == Response(404, "notFound", <<>>)

\* new UserPayment(data): schema defaults fill what the body leaves out.
NewUserPayment(data) ==
    [aadharNumber |-> data.aadharNumber,
     chitAmount |-> data.chitAmount,
     tenure |-> data.tenure,
     monthlyPremium |-> data.monthlyPremium,
     startDate |-> data.startDate,
     endDate |-> data.endDate,
     status |-> data.status,
     paymentRecords |-> data.paymentRecords,
     totalPaidAmount |-> data.totalPaidAmount,
     pendingMonths |-> data.pendingMonths,
     completedMonths |-> data.completedMonths,
     lastPaymentDate |-> data.lastPaymentDate]

\* createUserPayment, up to the construction of the document: the derived
\* contract fields and the zeroed summary are written over a copy of the body.
CreateData(body) ==
    [aadharNumber |-> body.aadharNumber,
     chitAmount |-> body.chitAmount,
     tenure |-> body.tenure,
     startDate |-> body.startDate,
     status |-> body.status,
     paymentRecords |-> body.paymentRecords,
     endDate |-> IF body.startDate # Null /\ body.tenure # 0
                 THEN AddMonths(body.startDate, body.tenure) ELSE Null,
     monthlyPremium |-> IF body.chitAmount # 0 /\ body.tenure # 0
                        THEN (body.chitAmount * Scale) \div body.tenure ELSE 0,
     totalPaidAmount |-> 0,
     completedMonths |-> 0,
     pendingMonths |-> body.tenure,
     lastPaymentDate |-> Null]

AadharExists(d, aadharNumber) == \E i \in DOMAIN d : d[i].aadharNumber = aadharNumber

\* userPayment.save() of a new document under id: validation, the pre-save
\* hook, then the insert, which the unique index on aadharNumber may refuse.
createUserPayment(d, id, body) ==
    LET userPayment == NewUserPayment(CreateData(body))
    IN IF ~ValidDoc(userPayment)
       THEN Result(d, Response(400, "validation", <<>>))
       ELSE IF AadharExists(d, userPayment.aadharNumber)
       THEN Result(d, Response(400, "duplicateAadhar", <<>>))
       ELSE Result([i \in DOMAIN d \cup {id} |->
                       IF i = id THEN PreSave(userPayment) ELSE d[i]],
                   Response(201, "created", <<>>))

\* userPayment.save() of a loaded document.
Save(d, id, userPayment, ok) ==
    IF ~ValidDoc(userPayment)
    THEN Result(d, Response(400, "validation", <<>>))
    ELSE Result([d EXCEPT ![id] = PreSave(userPayment)], ok)

\* monthNumbers.filter((month) => month < 1 || month > userPayment.tenure)
InvalidMonths(monthNumbers, tenure) ==
    LET Bad(month) == month < 1 \/ month > tenure
    IN SelectSeq(monthNumbers, Bad)

\* Mutation: the duplicate check looks for the wrong record status.
ExistingMonthsPartial(paymentRecords, monthNumbers) ==
    LET Hit(record) ==
            Includes(monthNumbers, record.monthNumber) /\ record.status = "partial"
        MonthOf(record) == record.monthNumber
    IN Map(SelectSeq(paymentRecords, Hit), MonthOf)

\* paymentRecords.filter((record) => monthNumbers.includes(record.monthNumber)
\*   && record.status === "paid").map((record) => record.monthNumber)
ExistingMonths(paymentRecords, monthNumbers) ==
    LET Hit(record) == Includes(monthNumbers, record.monthNumber) /\ record.status = "paid"
        MonthOf(record) == record.monthNumber
    IN Map(SelectSeq(paymentRecords, Hit), MonthOf)

DueDate(startDate, monthNumber) == AddMonths(startDate, monthNumber - 1)

\* The records recordPayment builds, one per requested month number.
NewPaymentRecords(userPayment, body) ==
    LET Build(monthNumber) ==
            [monthNumber |-> monthNumber,
             amount |-> (body.amount * Scale) \div Len(body.monthNumbers),
             paymentDate |-> body.paymentDate,
             dueDate |-> DueDate(userPayment.startDate, monthNumber),
             status |-> "paid"]
    IN Map(body.monthNumbers, Build)

\* Mutation: the already-paid check runs before the range check.
recordPaymentPaidFirst(d, id, body) ==
    IF id \notin DOMAIN d THEN Result(d, NotFound)
    ELSE LET userPayment == d[id]
             invalidMonths == InvalidMonths(body.monthNumbers, userPayment.tenure)
             existingMonths == ExistingMonths(userPayment.paymentRecords, body.monthNumbers)
         IN IF Len(existingMonths) > 0
            THEN Result(d, Response(400, "monthsAlreadyPaid", existingMonths))
            ELSE IF Len(invalidMonths) > 0
            THEN Result(d, Response(400, "invalidMonthNumbers", invalidMonths))
            ELSE Save(d, id,
                      [userPayment EXCEPT !.paymentRecords =
                          @ \o NewPaymentRecords(userPayment, body)],
                      Response(200, "paymentRecorded", body.monthNumbers))

recordPayment(d, id, body) ==
    IF id \notin DOMAIN d THEN Result(d, NotFound)
    ELSE LET userPayment == d[id]
             invalidMonths == InvalidMonths(body.monthNumbers, userPayment.tenure)
             existingMonths == ExistingMonths(userPayment.paymentRecords, body.monthNumbers)
         IN IF Len(invalidMonths) > 0
            THEN Result(d, Response(400, "invalidMonthNumbers", invalidMonths))
            ELSE IF Len(existingMonths) > 0
            THEN Result(d, Response(400, "monthsAlreadyPaid", existingMonths))
            ELSE Save(d, id,
                      [userPayment EXCEPT !.paymentRecords =
                          @ \o NewPaymentRecords(userPayment, body)],
                      Response(200, "paymentRecorded", body.monthNumbers))

\* Mutation: the loop returns after its first iteration.
BulkValidateFirstOnly(payments, userPayment) ==
    IF payments = <<>> THEN Null
    ELSE LET payment == Head(payments)
         IN IF payment.monthNumber < 1 \/ payment.monthNumber > userPayment.tenure
            THEN Response(400, "invalidMonthNumber", <<payment.monthNumber>>)
            ELSE IF \E i \in 1..Len(userPayment.paymentRecords) :
                      /\ userPayment.paymentRecords[i].monthNumber = payment.monthNumber
                      /\ userPayment.paymentRecords[i].status = "paid"
            THEN Response(400, "monthAlreadyPaid", <<payment.monthNumber>>)
            ELSE Null

\* The validation loop of recordBulkPayment: the response of the first entry
\* that fails a check, or Null when every entry passes.
RECURSIVE BulkValidate(_, _)
BulkValidate(payments, userPayment) ==
    IF payments = <<>> THEN Null
    ELSE LET payment == Head(payments)
         IN IF payment.monthNumber < 1 \/ payment.monthNumber > userPayment.tenure
            THEN Response(400, "invalidMonthNumber", <<payment.monthNumber>>)
            ELSE IF \E i \in 1..Len(userPayment.paymentRecords) :
                      /\ userPayment.paymentRecords[i].monthNumber = payment.monthNumber
                      /\ userPayment.paymentRecords[i].status = "paid"
            THEN Response(400, "monthAlreadyPaid", <<payment.monthNumber>>)
            ELSE BulkValidate(Tail(payments), userPayment)

NewBulkRecords(userPayment, payments) ==
    LET Build(payment) ==
            [monthNumber |-> payment.monthNumber,
             amount |-> payment.amount * Scale,
             paymentDate |-> payment.paymentDate,
             dueDate |-> DueDate(userPayment.startDate, payment.monthNumber),
             status |-> "paid"]
    IN Map(payments, Build)

recordBulkPayment(d, id, body) ==
    IF id \notin DOMAIN d THEN Result(d, NotFound)
    ELSE LET userPayment == d[id]
             failed == BulkValidate(body.payments, userPayment)
             MonthOf(payment) == payment.monthNumber
         IN IF failed # Null THEN Result(d, failed)
            ELSE Save(d, id,
                      [userPayment EXCEPT !.paymentRecords =
                          @ \o NewBulkRecords(userPayment, body.payments)],
                      Response(200, "bulkRecorded", Map(body.payments, MonthOf)))

\* findByIdAndUpdate(id, body, {new: true, runValidators: true}): the body's
\* field is written straight to the stored document; no save hook runs.
ApplyPatch(doc, body) ==
    CASE body.field = "tenure" -> [doc EXCEPT !.tenure = body.value]
      [] body.field = "status" -> [doc EXCEPT !.status = body.value]
      [] body.field = "completedMonths" -> [doc EXCEPT !.completedMonths = body.value]
      [] body.field = "paymentRecords" -> [doc EXCEPT !.paymentRecords = body.value]

updateUserPayment(d, id, body) ==
    IF id \notin DOMAIN d THEN Result(d, NotFound)
    ELSE IF ~ValidDoc(ApplyPatch(d[id], body))
    THEN Result(d, Response(400, "validation", <<>>))
    ELSE Result([d EXCEPT ![id] = ApplyPatch(d[id], body)],
                Response(200, "updated", <<>>))

\* findByIdAndDelete
deleteUserPayment(d, id) ==
    IF id \notin DOMAIN d THEN Result(d, NotFound)
    ELSE Result([i \in DOMAIN d \ {id} |-> d[i]], Response(200, "deleted", <<>>))

(* ---------------- requests ---------------- *)


BodyRecords ==
    {<<>>} \cup
    {<<[monthNumber |-> 1, amount |-> Scale, paymentDate |-> <<2024, 0, 5>>,
        dueDate |-> <<2024, 0, 1>>, status |-> st]>> : st \in {"paid", "partial", "pending"}}

CreateBodies ==
    [aadharNumber : Aadhars, chitAmount : ChitAmounts, tenure : Tenures,
     startDate : StartDates, status : {"active"},
     paymentRecords : BodyRecords]

PayBodies ==
    [monthNumbers : MonthLists, amount : {2}, paymentDate : PayDates]
    \cup [monthNumbers : MonthLists, amount : {-1}, paymentDate : {<<2024, 1, 10>>}]

BulkEntries == [monthNumber : Months, amount : {1}, paymentDate : {<<2024, 1, 10>>}]

BulkBodies == [payments : SeqsUpTo(BulkEntries, 2)]

Patches ==
    {[field |-> "tenure", value |-> t] : t \in Tenures}
    \cup {[field |-> "status", value |-> st] : st \in AccountStatuses}
    \cup {[field |-> "completedMonths", value |-> 7]}
    \cup {[field |-> "paymentRecords", value |-> <<>>]}

\* The model keeps at most MaxRecords records per account.
WithinBounds(d) ==
    DOMAIN d \subseteq Ids /\ \A i \in DOMAIN d : Len(d[i].paymentRecords) <= MaxRecords

(* ---------------- state machine ---------------- *)

Init ==
    /\ db = <<>>
    /\ response = Response(0, "none", <<>>)
    /\ inflight = <<>>

\* The _id the store gives a new document.
NewId(d) == IF Ids \subseteq DOMAIN d THEN 0 ELSE CHOOSE i \in Ids \ DOMAIN d : TRUE

Create ==
    \E body \in CreateBodies :
        LET result == createUserPayment(db, NewId(db), body)
        IN /\ WithinBounds(result.db)
           /\ db' = result.db
           /\ response' = result.res
           /\ UNCHANGED inflight

Pay ==
    \E id \in Ids, body \in PayBodies :
        LET result == recordPayment(db, id, body)
        IN /\ WithinBounds(result.db)
           /\ db' = result.db
           /\ response' = result.res
           /\ UNCHANGED inflight

BulkPay ==
    \E id \in Ids, body \in BulkBodies :
        LET result == recordBulkPayment(db, id, body)
        IN /\ WithinBounds(result.db)
           /\ db' = result.db
           /\ response' = result.res
           /\ UNCHANGED inflight

Update ==
    \E id \in Ids, body \in Patches :
        LET result == updateUserPayment(db, id, body)
        IN /\ WithinBounds(result.db)
           /\ db' = result.db
           /\ response' = result.res
           /\ UNCHANGED inflight

Delete ==
    \E id \in Ids :
        LET result == deleteUserPayment(db, id)
        IN /\ WithinBounds(result.db)
           /\ db' = result.db
           /\ response' = result.res
           /\ UNCHANGED inflight

Next == Create \/ Pay \/ BulkPay \/ Update \/ Delete

Spec == Init /\ [][Next]_vars

(* ---------------- interleaved payment requests ---------------- *)

\* Requests that may be in flight together.
Slots == {1, 2}

ConcurrentPayBodies ==
    {[monthNumbers |-> <<>>, amount |-> 2, paymentDate |-> <<2024, 2, 15>>],
     [monthNumbers |-> <<1>>, amount |-> 0, paymentDate |-> <<2024, 2, 15>>],
     [monthNumbers |-> <<1>>, amount |-> 2, paymentDate |-> <<2024, 2, 15>>]}

ConcurrentBulkBodies ==
    [payments : {<<e>> : e \in [monthNumber : {2}, amount : {1},
                                paymentDate : {<<2024, 1, 10>>}]}]

\* The handler from the document its findById returned to the document it
\* hands to save(): the handler of Spec run on that document alone.
HandleLoaded(q) ==
    LET own == [i \in {q.id} |-> q.userPayment]
    IN IF q.op = "pay" THEN recordPayment(own, q.id, q.body)
       ELSE recordBulkPayment(own, q.id, q.body)

\* What save() sends for a loaded document: the pushed records as a push onto
\* the stored array, and a set of each path whose value differs from the one
\* loaded.  The update carries no version condition.
PersistChanges(d, id, loaded, saved) ==
    [d EXCEPT ![id] =
        [@ EXCEPT
           !.paymentRecords = @ \o SubSeq(saved.paymentRecords,
                                          Len(loaded.paymentRecords) + 1,
                                          Len(saved.paymentRecords)),
           !.endDate = IF saved.endDate # loaded.endDate THEN saved.endDate ELSE @,
           !.monthlyPremium = IF saved.monthlyPremium # loaded.monthlyPremium
                              THEN saved.monthlyPremium ELSE @,
           !.completedMonths = IF saved.completedMonths # loaded.completedMonths
                               THEN saved.completedMonths ELSE @,
           !.pendingMonths = IF saved.pendingMonths # loaded.pendingMonths
                             THEN saved.pendingMonths ELSE @,
           !.totalPaidAmount = IF saved.totalPaidAmount # loaded.totalPaidAmount
                               THEN saved.totalPaidAmount ELSE @,
           !.lastPaymentDate = IF saved.lastPaymentDate # loaded.lastPaymentDate
                               THEN saved.lastPaymentDate ELSE @,
           !.status = IF saved.status # loaded.status THEN saved.status ELSE @]]

\* Mutation: save() refuses a document that was stored anew since its load.
SaveLoadedVersioned(d, q) ==
    LET result == HandleLoaded(q)
    IN IF result.res.status # 200 THEN Result(d, result.res)
       ELSE IF d[q.id] # q.userPayment
       THEN Result(d, Response(400, "versionError", <<>>))
       ELSE Result(PersistChanges(d, q.id, q.userPayment, result.db[q.id]), result.res)

\* The rest of a payment handler once its findById has returned q.userPayment:
\* the checks, the push, and save() against the store as it is by then.
SaveLoaded(d, q) ==
    LET result == HandleLoaded(q)
    IN IF result.res.status # 200 THEN Result(d, result.res)
       ELSE Result(PersistChanges(d, q.id, q.userPayment, result.db[q.id]), result.res)

Load(slot, op, id, body) ==
    /\ slot \notin DOMAIN inflight
    /\ \A i \in Slots \ DOMAIN inflight : slot <= i
    /\ IF id \in DOMAIN db
       THEN /\ inflight' = [i \in DOMAIN inflight \cup {slot} |->
                              IF i = slot
                              THEN [op |-> op, id |-> id, body |-> body,
                                    userPayment |-> db[id]]
                              ELSE inflight[i]]
            /\ UNCHANGED <<db, response>>
       ELSE /\ response' = NotFound
            /\ UNCHANGED <<db, inflight>>

LoadPay == \E slot \in Slots, id \in Ids, body \in ConcurrentPayBodies :
              Load(slot, "pay", id, body)

LoadBulkPay == \E slot \in Slots, id \in Ids, body \in ConcurrentBulkBodies :
                  Load(slot, "bulkPay", id, body)

Finish ==
    \E slot \in DOMAIN inflight :
        LET result == SaveLoaded(db, inflight[slot])
        IN /\ inflight[slot].id \in DOMAIN db
           /\ WithinBounds(result.db)
           /\ db' = result.db
           /\ response' = result.res
           /\ inflight' = [i \in DOMAIN inflight \ {slot} |-> inflight[i]]

NextC == Create \/ LoadPay \/ LoadBulkPay \/ Finish

SpecC == Init /\ [][NextC]_vars

(* ---------------- properties ---------------- *)

\* The response reports a save that went through: the derivation pass has
\* just run on the account the store now holds.
Saved == response.kind \in {"created", "paymentRecorded", "bulkRecorded"}

SettledIndexes(records) ==
    {i \in 1..Len(records) : records[i].status \in {"paid", "partial"}}

RECURSIVE SumOver(_, _)
SumOver(records, idx) ==
    IF idx = {} THEN 0
    ELSE LET i == CHOOSE j \in idx : TRUE
         IN records[i].amount + SumOver(records, idx \ {i})

SettledSum(records) == SumOver(records, SettledIndexes(records))

InSync(doc) ==
    /\ doc.completedMonths = Cardinality(SettledIndexes(doc.paymentRecords))
    /\ doc.pendingMonths = doc.tenure - Cardinality(SettledIndexes(doc.paymentRecords))
    /\ doc.totalPaidAmount = SettledSum(doc.paymentRecords)

\* C1: in every persisted state the cached summary equals what the records
\* give: completedMonths the number of settled records, pendingMonths tenure
\* minus that number, totalPaidAmount the sum of their amounts.
C1_SummaryInSync == \A id \in DOMAIN db : InSync(db[id])

\* C2: right after a derivation pass completedMonths + pendingMonths = tenure.
C2_CompletedPlusPending ==
    Saved => \A id \in DOMAIN db :
                db[id].completedMonths + db[id].pendingMonths = db[id].tenure

\* C2 witness: a saved account whose settled records outnumber its tenure,
\* so that pendingMonths is negative.
C2_Witness ==
    /\ Saved
    /\ \E id \in DOMAIN db :
         db[id].completedMonths > db[id].tenure /\ db[id].pendingMonths < 0

SummaryOf(doc) ==
    <<doc.totalPaidAmount, doc.completedMonths, doc.pendingMonths,
      doc.lastPaymentDate, doc.status>>

\* C3: right after a derivation pass totalPaidAmount is the sum of amount over
\* the settled records, and a second pass over the same records changes none
\* of totalPaidAmount, completedMonths, pendingMonths, lastPaymentDate, status.
C3_TotalAndIdempotent ==
    Saved => \A id \in DOMAIN db :
                /\ db[id].totalPaidAmount = SettledSum(db[id].paymentRecords)
                /\ SummaryOf(PreSave(db[id])) = SummaryOf(db[id])

\* C3 witness: a payment saved on an account that already had a settled
\* amount and also holds a record that is not settled.
C3_Witness ==
    /\ response.kind = "paymentRecorded"
    /\ \E id \in DOMAIN db :
         /\ \E i \in 1..Len(db[id].paymentRecords) :
               db[id].paymentRecords[i].status = "pending"
         /\ db[id].totalPaidAmount > 0

HasPaidRecord(doc, month) ==
    \E i \in 1..Len(doc.paymentRecords) :
        doc.paymentRecords[i].monthNumber = month /\ doc.paymentRecords[i].status = "paid"

OutOfRange(doc, month) == month < 1 \/ month > doc.tenure

Elems(s) == {s[i] : i \in 1..Len(s)}

\* C4 as stated: a single payment naming an already-paid month always fails
\* with the conflict error and leaves the store as it was.
C4_AlwaysConflict ==
    \A id \in DOMAIN db, body \in PayBodies :
        (\E m \in Elems(body.monthNumbers) : HasPaidRecord(db[id], m))
        => LET r == recordPayment(db, id, body)
           IN r.res.status = 400 /\ r.res.kind = "monthsAlreadyPaid" /\ r.db = db

\* C4 amended: a single payment naming an already-paid month fails with status
\* 400 and leaves the store as it was; the failure is the conflict error,
\* listing exactly the requested months that have a paid record, when every
\* requested month is within 1..tenure, and the range error otherwise.
C4_ConflictWhenInRange ==
    \A id \in DOMAIN db, body \in PayBodies :
        (\E m \in Elems(body.monthNumbers) : HasPaidRecord(db[id], m))
        => LET r == recordPayment(db, id, body)
               inRange == \A m \in Elems(body.monthNumbers) : ~OutOfRange(db[id], m)
           IN /\ r.res.status = 400
              /\ r.db = db
              /\ inRange =>
                   /\ r.res.kind = "monthsAlreadyPaid"
                   /\ Elems(r.res.months) =
                        {m \in Elems(body.monthNumbers) : HasPaidRecord(db[id], m)}
              /\ ~inRange => r.res.kind = "invalidMonthNumbers"

\* C4 witness: the conflict error has been returned for an account holding a
\* paid record of a listed month.
C4_Witness ==
    /\ response.kind = "monthsAlreadyPaid"
    /\ \E id \in DOMAIN db : \E m \in Elems(response.months) : HasPaidRecord(db[id], m)

\* C5: a single payment naming a month outside 1..tenure fails with the range
\* error naming every offending number and leaves the store as it was, also
\* when the request names an already-paid month as well.
C5_RangeErrorFirst ==
    \A id \in DOMAIN db, body \in PayBodies :
        (\E m \in Elems(body.monthNumbers) : OutOfRange(db[id], m))
        => LET r == recordPayment(db, id, body)
           IN /\ r.res.status = 400
              /\ r.res.kind = "invalidMonthNumbers"
              /\ Elems(r.res.months) =
                   {m \in Elems(body.monthNumbers) : OutOfRange(db[id], m)}
              /\ r.db = db

\* C5 witness: the range error has been returned for an account that holds a
\* paid record, for a request that named that month as well.
C5_Witness ==
    /\ response.kind = "invalidMonthNumbers"
    /\ \E id \in DOMAIN db, body \in PayBodies :
         /\ recordPayment(db, id, body).res = response
         /\ \E m \in Elems(body.monthNumbers) : HasPaidRecord(db[id], m)

BulkEntryFails(doc, payment) ==
    OutOfRange(doc, payment.monthNumber) \/ HasPaidRecord(doc, payment.monthNumber)

\* C6: a bulk payment with an entry that fails its range check or its
\* already-paid check fails with status 400 and leaves the store as it was,
\* whatever valid entries come before the failing one.
C6_BulkAllOrNothing ==
    \A id \in DOMAIN db, body \in BulkBodies :
        (\E i \in 1..Len(body.payments) : BulkEntryFails(db[id], body.payments[i]))
        => LET r == recordBulkPayment(db, id, body)
           IN r.res.status = 400 /\ r.db = db

\* C6 witness: a bulk payment has been refused whose first entry is valid and
\* whose second entry fails.
C6_Witness ==
    /\ response.kind \in {"invalidMonthNumber", "monthAlreadyPaid"}
    /\ \E id \in DOMAIN db, body \in BulkBodies :
         /\ Len(body.payments) = 2
         /\ ~BulkEntryFails(db[id], body.payments[1])
         /\ recordBulkPayment(db, id, body).res = response

PaymentSaved == response.kind \in {"paymentRecorded", "bulkRecorded"}

\* C7: a payment application that leaves completedMonths >= tenure leaves the
\* status completed, and a payment application on a completed account leaves
\* it completed.
C7_CompletedIsOneWay ==
    [][PaymentSaved' =>
         \A id \in DOMAIN db' :
            /\ db'[id].completedMonths >= db'[id].tenure => db'[id].status = "completed"
            /\ (id \in DOMAIN db /\ db[id].status = "completed")
                  => db'[id].status = "completed"]_vars

\* C7 witness: a payment application that added no record has been saved on
\* an account that was already completed.
C7_Witness ==
    /\ response.kind = "paymentRecorded"
    /\ response.months = <<>>
    /\ \E id \in DOMAIN db :
         db[id].status = "completed" /\ db[id].completedMonths >= db[id].tenure

\* C8 as stated: a successful single payment of totalAmount over n >= 1 month
\* numbers appends n paid records, one per requested month in request order,
\* each of amount totalAmount / n and due startDate + (monthNumber - 1)
\* months, and raises completedMonths by n, lowers pendingMonths by n and
\* raises totalPaidAmount by totalAmount.
C8_SinglePaymentEffect ==
    [][response'.kind = "paymentRecorded" =>
         \A id \in DOMAIN db, body \in PayBodies :
            (Len(body.monthNumbers) >= 1 /\ recordPayment(db, id, body) = Result(db', response'))
            => LET n == Len(body.monthNumbers)
                   old == db[id]
                   new == db'[id]
               IN /\ Len(new.paymentRecords) = Len(old.paymentRecords) + n
                  /\ SubSeq(new.paymentRecords, 1, Len(old.paymentRecords)) = old.paymentRecords
                  /\ \A i \in 1..n :
                        LET record == new.paymentRecords[Len(old.paymentRecords) + i]
                        IN /\ record.monthNumber = body.monthNumbers[i]
                           /\ record.status = "paid"
                           /\ record.amount * n = body.amount * Scale
                           /\ record.dueDate = AddMonths(old.startDate, body.monthNumbers[i] - 1)
                  /\ new.completedMonths = old.completedMonths + n
                  /\ new.pendingMonths = old.pendingMonths - n
                  /\ new.totalPaidAmount = old.totalPaidAmount + body.amount * Scale]_vars

NoDuplicatePaid(records) ==
    \A i, j \in 1..Len(records) :
        (i # j /\ records[i].status = "paid" /\ records[j].status = "paid")
        => records[i].monthNumber # records[j].monthNumber

\* C9 as stated: a single payment never adds a second paid record for a month
\* number: on an account where no two paid records share a month number, none
\* do after the payment, and completedMonths does not come to exceed tenure.
C9_SinglePathNoDuplicate ==
    [][response'.kind = "paymentRecorded" =>
         \A id \in DOMAIN db :
            NoDuplicatePaid(db[id].paymentRecords)
            => /\ NoDuplicatePaid(db'[id].paymentRecords)
               /\ db[id].completedMonths <= db[id].tenure
                     => db'[id].completedMonths <= db'[id].tenure]_vars

\* C10 as stated: an account just persisted by a create request has a zeroed
\* summary, pendingMonths = tenure, no lastPaymentDate and no payment record.
C10_CreatedZeroed ==
    response.kind = "created" =>
        \A id \in DOMAIN db :
            /\ db[id].completedMonths = 0
            /\ db[id].pendingMonths = db[id].tenure
            /\ db[id].totalPaidAmount = 0
            /\ db[id].lastPaymentDate = Null
            /\ db[id].paymentRecords = <<>>

SettledDates(records) == {records[i].paymentDate : i \in SettledIndexes(records)}

\* C12 as stated: right after a derivation pass lastPaymentDate is the
\* greatest paymentDate of the settled records, and is unset when no record
\* is settled.
C12_LastPaymentDateIsMax ==
    Saved => \A id \in DOMAIN db :
                LET dates == SettledDates(db[id].paymentRecords)
                IN IF dates = {} THEN db[id].lastPaymentDate = Null
                   ELSE /\ db[id].lastPaymentDate \in dates
                        /\ \A d \in dates : ~DateGT(d, db[id].lastPaymentDate)

\* A batch of two entries for one month that is in range and not yet paid.
TwiceTheSameMonth(doc, body) ==
    /\ Len(body.payments) = 2
    /\ body.payments[1].monthNumber = body.payments[2].monthNumber
    /\ ~OutOfRange(doc, body.payments[1].monthNumber)
    /\ ~HasPaidRecord(doc, body.payments[1].monthNumber)

\* C13 as stated: a bulk payment with two entries for the same in-range,
\* unpaid month succeeds and appends both as paid records, and completedMonths
\* grows by 2 and totalPaidAmount by the two amounts.
C13_BulkDuplicateCounted ==
    [][\A id \in DOMAIN db, body \in BulkBodies :
          TwiceTheSameMonth(db[id], body)
          => LET r == recordBulkPayment(db, id, body)
                 old == db[id]
                 new == db'[id]
                 n == Len(old.paymentRecords)
             IN /\ r.res.kind = "bulkRecorded"
                /\ r = Result(db', response')
                     => /\ Len(new.paymentRecords) = n + 2
                        /\ SubSeq(new.paymentRecords, 1, n) = old.paymentRecords
                        /\ \A i \in 1..2 :
                              /\ new.paymentRecords[n + i].monthNumber =
                                    body.payments[i].monthNumber
                              /\ new.paymentRecords[n + i].status = "paid"
                              /\ new.paymentRecords[n + i].amount =
                                    body.payments[i].amount * Scale
                        /\ new.completedMonths = old.completedMonths + 2
                        /\ new.totalPaidAmount = old.totalPaidAmount
                              + (body.payments[1].amount + body.payments[2].amount) * Scale]_vars

\* A step that completes the request in slot, which loaded its document
\* before another request's save changed the stored one, and which passes its
\* own checks on the document it loaded.
FinishesStale(slot) ==
    /\ slot \notin DOMAIN inflight'
    /\ inflight[slot].id \in DOMAIN db
    /\ inflight[slot].userPayment # db[inflight[slot].id]
    /\ HandleLoaded(inflight[slot]).res.status = 200

CachedSummary(doc) ==
    <<doc.totalPaidAmount, doc.completedMonths, doc.pendingMonths, doc.lastPaymentDate>>

SettledCount(records) == Cardinality(SettledIndexes(records))

\* C11 as stated: the later of two interleaved payment requests is not
\* rejected, and the summary persisted by its save is the one derived from
\* its own stale view, which does not count the earlier request's payment.
C11_LastWriterWins ==
    [][\A slot \in DOMAIN inflight :
          FinishesStale(slot)
          => LET q == inflight[slot]
                 r == HandleLoaded(q)
             IN /\ response' = r.res
                /\ CachedSummary(db'[q.id]) = CachedSummary(r.db[q.id])
                /\ db'[q.id].completedMonths
                      < SettledCount(db'[q.id].paymentRecords)]_vars

\* The number of records a request asks to add, and their total amount.
RequestedCount(q) ==
    IF q.op = "pay" THEN Len(q.body.monthNumbers) ELSE Len(q.body.payments)

RECURSIVE SumOfPayments(_)
SumOfPayments(payments) ==
    IF payments = <<>> THEN 0
    ELSE Head(payments).amount * Scale + SumOfPayments(Tail(payments))

RequestedAmount(q) ==
    IF q.op = "pay" THEN q.body.amount * Scale ELSE SumOfPayments(q.body.payments)

\* A field after a save: the derived value where it differs from the loaded
\* one, the stored value otherwise.
WrittenIfChanged(new, derived, loaded, stored) ==
    new = IF derived # loaded THEN derived ELSE stored

\* C11 amended: the later of two interleaved payment requests is not rejected
\* and its save succeeds.  It writes exactly the summary fields whose value
\* derived from its own stale view differs from the value it loaded and keeps
\* the others as stored.  When it adds at least one record to a view whose
\* summary was in sync, the completedMonths, pendingMonths and totalPaidAmount
\* it persists are those of its stale view and leave out the records the
\* earlier request stored.
C11_LastWriterWinsOnChange ==
    [][\A slot \in DOMAIN inflight :
          FinishesStale(slot)
          => LET q == inflight[slot]
                 n == RequestedCount(q)
                 loaded == q.userPayment
                 derived == HandleLoaded(q).db[q.id]
                 stored == db[q.id]
                 new == db'[q.id]
             IN /\ response'.status = 200
                /\ response' = HandleLoaded(q).res
                /\ WrittenIfChanged(new.completedMonths, derived.completedMonths,
                                    loaded.completedMonths, stored.completedMonths)
                /\ WrittenIfChanged(new.pendingMonths, derived.pendingMonths,
                                    loaded.pendingMonths, stored.pendingMonths)
                /\ WrittenIfChanged(new.totalPaidAmount, derived.totalPaidAmount,
                                    loaded.totalPaidAmount, stored.totalPaidAmount)
                /\ WrittenIfChanged(new.lastPaymentDate, derived.lastPaymentDate,
                                    loaded.lastPaymentDate, stored.lastPaymentDate)
                /\ WrittenIfChanged(new.status, derived.status,
                                    loaded.status, stored.status)
                /\ (n >= 1 /\ InSync(loaded)) =>
                     /\ new.completedMonths = SettledCount(loaded.paymentRecords) + n
                     /\ new.pendingMonths = new.tenure - new.completedMonths
                     /\ RequestedAmount(q) # 0
                           => new.totalPaidAmount =
                                 SettledSum(loaded.paymentRecords) + RequestedAmount(q)
                     /\ Len(stored.paymentRecords) > Len(loaded.paymentRecords)
                           => new.completedMonths < SettledCount(new.paymentRecords)]_vars

\* C11 witness: after a payment was saved, the stored summary counts fewer
\* settled records than the account holds and no request is in flight: the
\* later of two interleaved saves has overwritten the earlier one's summary.
C11_Witness ==
    /\ PaymentSaved
    /\ inflight = <<>>
    /\ \E id \in DOMAIN db :
         /\ db[id].completedMonths < SettledCount(db[id].paymentRecords)
         /\ db[id].completedMonths >= 1

====
